---- MODULE Spec2Model ----
(***************************************************************************)
(* Parts consumption and MRO stock ledger of CMMS_NEON.                    *)
(*                                                                         *)
(* The database (PostgreSQL: SERIAL, BYTEA, ON CONFLICT, %s parameters) is *)
(* modelled by its committed tables plus, per connection, the writes of    *)
(* the transaction in flight.  An UPDATE takes the row lock of the part    *)
(* until commit or rollback; a statement that needs a locked row waits.    *)
(* Quantities (REAL in the schema) are modelled by integers.               *)
(***************************************************************************)
EXTENDS Integers, Sequences, FiniteSets, TLC

\* ---- bounds of the model ------------------------------------------------
MaxStock == 2        \* largest quantity typed into a stock field / initial stock
MaxQty == 3          \* largest quantity typed into "Quantity Used"
MaxSaves == 1        \* "Save and Complete" clicks (with parts listed) per dialog
MaxAdminOps == 1     \* add / edit / delete operations of the stock manager

Parts == {"BRG-100", "BRG-200"}
Dialogs == {1, 2}
Prices == {1, 2}
Statuses == {"Active", "Inactive"}
NULL == "NULL"

\* cm_number and technician_name handed to PartsConsumptionDialog.__init__
cm_number(d) == IF d = 1 THEN "CM-001" ELSE "CM-002"
technician_name(d) == IF d = 1 THEN "J.Smith" ELSE "A.Jones"

\* float("nan"), which float() accepts: a value outside every range of numbers of
\* the model, handled by the comparisons and the arithmetic below
NaN == 0 - 1000
IsNumber(x) == x # NaN
\* Python's comparisons, False when an operand is nan
LessEq(a, b) == IsNumber(a) /\ IsNumber(b) /\ a <= b
Greater(a, b) == IsNumber(a) /\ IsNumber(b) /\ a > b
\* arithmetic of Python and of the REAL columns: nan in, nan out
Minus(a, b) == IF IsNumber(a) /\ IsNumber(b) THEN a - b ELSE NaN
Times(a, b) == IF IsNumber(a) /\ IsNumber(b) THEN a * b ELSE NaN

\* texts the user can type into qty_entry: numbers, or something float() rejects
QtyTexts == [numeric : {TRUE}, value : 0 .. MaxQty] \cup {[numeric |-> FALSE, value |-> 0]}

\* the parts the technician at each dialog picks from the list
\* the text "nan" typed into qty_entry (a QLineEdit without a validator)
NaNText == [numeric |-> TRUE, value |-> NaN]

Selectable(d) == IF d = 1 THEN Parts ELSE {"BRG-100"}

VARIABLES
    mro_inventory,          \* committed rows: part_number -> row
    mro_stock_transactions, \* committed ledger rows, in insertion order
    cm_parts_used,          \* committed usage rows, in insertion order
    initial_quantity,       \* quantity each part was created with
    dlg,                    \* dialog position: "unopened", "open", "saving", "accepted", "rejected"
    all_parts_data,         \* per dialog: the parts list fetched by load_parts_data
    consumed_parts,         \* per dialog: the pending list
    tx,                     \* per dialog: the transaction in flight on its connection
    message,                \* the last message box shown
    callbacks,              \* per dialog: the values the callback was called with
    saves,                  \* per dialog: save attempts with a non-empty list
    edit_form,              \* the stock manager's open edit form, or NoForm
    admin_ops,              \* stock manager operations performed
    conn_tx,                \* rows INSERTed on the application's self.conn, not yet committed
    import_log,             \* per import_from_file run: what failed and what was counted
    equipment,              \* the equipment row of the viewed bfm_no, or NoEquipment
    pm_completions,         \* rows of pm_completions for the equipment, in table order
    corrective_maintenance, \* rows of corrective_maintenance for the equipment
    cm_parts_requests,      \* rows of cm_parts_requests joined to the equipment's CMs
    audit_log,              \* rows of audit_log for the equipment
    today,                  \* datetime.now(), as a day number
    returned,               \* the last call of the history manager and what it returned
    previous                \* the call before it

db == <<mro_inventory, mro_stock_transactions, cm_parts_used>>
dialogVars == <<dlg, all_parts_data, consumed_parts, tx, message, callbacks, saves>>
adminVars == <<edit_form, admin_ops>>
connVars == <<conn_tx, import_log>>
tables == <<equipment, pm_completions, corrective_maintenance, cm_parts_requests, audit_log>>
historyVars == <<equipment, pm_completions, corrective_maintenance, cm_parts_requests,
                 audit_log, today, returned, previous>>
vars == <<mro_inventory, mro_stock_transactions, cm_parts_used, initial_quantity,
          dlg, all_parts_data, consumed_parts, tx, message, callbacks, saves,
          edit_form, admin_ops, conn_tx, import_log, equipment, pm_completions,
          corrective_maintenance, cm_parts_requests, audit_log, today, returned, previous>>

\* a message box: who shows it, its title, and the values its text reports
Box(d, title, part_num, qty_used, qty_available) ==
    [dialog |-> d, box |-> title, part_number |-> part_num,
     qty_used |-> qty_used, qty_available |-> qty_available]
Plain(d, title) == Box(d, title, NULL, 0, 0)

NoForm == [part_number |-> NULL, quantity_in_stock |-> 0, unit_price |-> 0, status |-> NULL]
NoRows == [p \in {} |-> 0]
NoTx == [k |-> 0, transactions |-> <<>>, used |-> <<>>, rows |-> NoRows]

\* ---- helpers --------------------------------------------------------------
RECURSIVE SumQuantity(_, _)
SumQuantity(rows, p) ==
    IF rows = <<>> THEN 0
    ELSE (IF Head(rows).part_number = p THEN Head(rows).quantity ELSE 0)
         + SumQuantity(Tail(rows), p)

\* parts whose inventory row is locked by the transaction of another dialog
LockedByOther(d) == UNION {DOMAIN tx[e].rows : e \in Dialogs \ {d}}
Locked == UNION {DOMAIN tx[e].rows : e \in Dialogs}

\* ---- PartsConsumptionDialog ----------------------------------------------
\* load_parts_data: SELECT ... FROM mro_inventory WHERE status = 'Active'
load_parts_data(inv) ==
    [p \in {q \in DOMAIN inv : inv[q].status = "Active"} |-> inv[p].quantity_in_stock]

\* __init__: the constructor loads the parts list once
open_dialog(d) ==
    /\ dlg[d] = "unopened"
    /\ dlg' = [dlg EXCEPT ![d] = "open"]
    /\ all_parts_data' = [all_parts_data EXCEPT ![d] = load_parts_data(mro_inventory)]
    /\ UNCHANGED <<db, initial_quantity, consumed_parts, tx, message, callbacks, saves, adminVars,
                   connVars, historyVars>>

\* float(self.qty_entry.text()) with the qty_used <= 0 test
QuantityError(text) ==
    IF ~text.numeric THEN "Invalid quantity value"
    ELSE IF LessEq(text.value, 0) THEN "Quantity must be greater than 0"
    ELSE "ok"

\* mutant: the out-of-stock test is missing
StockError_NoOutOfStock(qty_used, qty_available) ==
    IF Greater(qty_used, qty_available) THEN "Insufficient Stock" ELSE "ok"

\* the stock tests of add_consumed_part, on the quantity shown in the tree
StockError(qty_used, qty_available) ==
    IF LessEq(qty_available, 0) THEN "Part Out of Stock"
    ELSE IF Greater(qty_used, qty_available) THEN "Insufficient Stock"
    ELSE "ok"

\* the two stock boxes: "Available quantity: ..." and
\* "Quantity used (...) exceeds available quantity (...)"
StockBox(d, title, part_num, qty_used, qty_available) ==
    IF title = "Part Out of Stock" THEN Box(d, title, part_num, 0, qty_available)
    ELSE Box(d, title, part_num, qty_used, qty_available)

\* mutant: the duplicate test is missing
AlreadyAdded_Never(consumed, part_num) == FALSE

\* "Check if part already added"
AlreadyAdded(consumed, part_num) ==
    \E i \in 1 .. Len(consumed) : consumed[i].part_number = part_num

\* the quantity column of the selected tree item (filled from all_parts_data)
QtyAvailable(d, part_num) == all_parts_data[d][part_num]

add_consumed_part(d, part_num, text) ==
    /\ dlg[d] = "open"
    /\ part_num \in DOMAIN all_parts_data[d] \cap Selectable(d)
    /\ LET qerr == QuantityError(text)
           qty_used == text.value
           serr == StockError(qty_used, QtyAvailable(d, part_num))
       IN IF qerr # "ok"
          THEN /\ message' = Plain(d, qerr)
               /\ UNCHANGED consumed_parts
          ELSE IF serr # "ok"
          THEN /\ message' = StockBox(d, serr, part_num, qty_used, QtyAvailable(d, part_num))
               /\ UNCHANGED consumed_parts
          ELSE IF AlreadyAdded(consumed_parts[d], part_num)
          THEN /\ message' = Plain(d, "already in the consumed list")
               /\ UNCHANGED consumed_parts
          ELSE /\ consumed_parts' = [consumed_parts EXCEPT ![d] =
                      Append(@, [part_number |-> part_num, quantity |-> qty_used])]
               /\ message' = Box(d, "Added", part_num, 0, 0)
    /\ UNCHANGED <<db, initial_quantity, dlg, all_parts_data, tx, callbacks, saves, adminVars,
                   connVars, historyVars>>

\* self.consumed_parts = [p for p in self.consumed_parts if p['part_number'] != part_num]
RemovePart(consumed, part_num) ==
    SelectSeq(consumed, LAMBDA p : p.part_number # part_num)

remove_consumed_part(d, part_num) ==
    /\ dlg[d] = "open"
    /\ AlreadyAdded(consumed_parts[d], part_num)
    /\ consumed_parts' = [consumed_parts EXCEPT ![d] = RemovePart(@, part_num)]
    /\ UNCHANGED <<db, initial_quantity, dlg, all_parts_data, tx, message, callbacks, saves, adminVars,
                   connVars, historyVars>>

\* ---- save_and_close: one transaction on the dialog's connection -----------
\* mutant: the ledger row carries the quantity unsigned
IssueRow_Unsigned(d, part) ==
    [part_number |-> part.part_number,
     transaction_type |-> "Issue",
     quantity |-> part.quantity,
     technician_name |-> technician_name(d),
     work_order |-> NULL,
     notes |-> <<"CM Work Order: ", cm_number(d)>>]

\* INSERT INTO mro_stock_transactions (...) VALUES (part, 'Issue', -quantity, technician, notes, now)
IssueRow(d, part) ==
    [part_number |-> part.part_number,
     transaction_type |-> "Issue",
     quantity |-> Minus(0, part.quantity),
     technician_name |-> technician_name(d),
     work_order |-> NULL,
     notes |-> <<"CM Work Order: ", cm_number(d)>>]

\* unit_price = float(result[0]) if result and result[0] else 0.0
UnitPrice(inv, part_num) ==
    IF part_num \in DOMAIN inv THEN inv[part_num].unit_price ELSE 0

\* mutant: the usage row stores the unit price instead of the extended cost
UsageRow_UnitCost(d, part, unit_price) ==
    [cm_number |-> cm_number(d),
     part_number |-> part.part_number,
     quantity_used |-> part.quantity,
     total_cost |-> unit_price,
     recorded_by |-> technician_name(d)]

\* INSERT INTO cm_parts_used (cm_number, part_number, quantity_used, total_cost, ...)
UsageRow(d, part, unit_price) ==
    [cm_number |-> cm_number(d),
     part_number |-> part.part_number,
     quantity_used |-> part.quantity,
     total_cost |-> Times(unit_price, part.quantity),
     recorded_by |-> technician_name(d)]

\* mutant: the UPDATE leaves the quantity as it is
NewQuantity_Kept(quantity_in_stock, quantity) == quantity_in_stock

\* UPDATE mro_inventory SET quantity_in_stock = quantity_in_stock - %s
NewQuantity(quantity_in_stock, quantity) == Minus(quantity_in_stock, quantity)

\* mutant: the handler reports the failure without rolling back, so the statements
\* executed so far are committed with the connection's next commit
ExceptHandler_NoRollback(d) ==
    /\ mro_inventory' = [p \in DOMAIN mro_inventory |->
          IF p \in DOMAIN tx[d].rows
          THEN [mro_inventory[p] EXCEPT !.quantity_in_stock = tx[d].rows[p]]
          ELSE mro_inventory[p]]
    /\ mro_stock_transactions' = mro_stock_transactions \o tx[d].transactions
    /\ cm_parts_used' = cm_parts_used \o tx[d].used
    /\ tx' = [tx EXCEPT ![d] = NoTx]
    /\ message' = Plain(d, "Failed to record parts consumption")
    /\ callbacks' = [callbacks EXCEPT ![d] = Append(@, FALSE)]
    /\ dlg' = [dlg EXCEPT ![d] = "open"]
    /\ UNCHANGED <<initial_quantity, all_parts_data, consumed_parts, saves, adminVars,
                   connVars, historyVars>>

\* except Exception: self.conn.rollback(); message box; callback(False).
\* The dialog stays open with its pending list.
ExceptHandler(d) ==
    /\ tx' = [tx EXCEPT ![d] = NoTx]
    /\ message' = Plain(d, "Failed to record parts consumption")
    /\ callbacks' = [callbacks EXCEPT ![d] = Append(@, FALSE)]
    /\ dlg' = [dlg EXCEPT ![d] = "open"]
    /\ UNCHANGED <<db, initial_quantity, all_parts_data, consumed_parts, saves, adminVars,
                   connVars, historyVars>>

\* mutant: confirming an empty save ends the dialog as a failure
save_and_close_EmptyFails(d) ==
    /\ dlg[d] = "open"
    /\ IF consumed_parts[d] = <<>>
       THEN /\ UNCHANGED <<tx, saves>>
            /\ message' = Plain(d, "Confirm")
            /\ \E response \in {"Yes", "No"} :
                 IF response = "No"
                 THEN UNCHANGED <<dlg, callbacks>>
                 ELSE /\ dlg' = [dlg EXCEPT ![d] = "rejected"]
                      /\ callbacks' = [callbacks EXCEPT ![d] = Append(@, FALSE)]
       ELSE /\ saves[d] < MaxSaves
            /\ saves' = [saves EXCEPT ![d] = @ + 1]
            /\ dlg' = [dlg EXCEPT ![d] = "saving"]
            /\ tx' = [tx EXCEPT ![d] = [NoTx EXCEPT !.k = 1]]
            /\ UNCHANGED <<message, callbacks>>
    /\ UNCHANGED <<db, initial_quantity, all_parts_data, consumed_parts, adminVars,
                   connVars, historyVars>>

\* the click on "Save and Complete": the empty-list branch, or the start of the loop
save_and_close(d) ==
    /\ dlg[d] = "open"
    /\ IF consumed_parts[d] = <<>>
       THEN /\ UNCHANGED <<tx, saves>>
            /\ message' = Plain(d, "Confirm")
            /\ \E response \in {"Yes", "No"} :
                 IF response = "No"
                 THEN UNCHANGED <<dlg, callbacks>>
                 ELSE /\ dlg' = [dlg EXCEPT ![d] = "accepted"]
                      /\ callbacks' = [callbacks EXCEPT ![d] = Append(@, TRUE)]
       ELSE /\ saves[d] < MaxSaves
            /\ saves' = [saves EXCEPT ![d] = @ + 1]
            /\ dlg' = [dlg EXCEPT ![d] = "saving"]
            /\ tx' = [tx EXCEPT ![d] = [NoTx EXCEPT !.k = 1]]
            /\ UNCHANGED <<message, callbacks>>
    /\ UNCHANGED <<db, initial_quantity, all_parts_data, consumed_parts, adminVars,
                   connVars, historyVars>>

\* one iteration of "for part in self.consumed_parts": SELECT unit_price, the two
\* INSERTs and the UPDATE.  Both tables reference mro_inventory(part_number), so
\* the INSERT for a part without a row raises; the UPDATE waits for the row lock.
save_item(d) ==
    /\ dlg[d] = "saving"
    /\ tx[d].k <= Len(consumed_parts[d])
    /\ LET part == consumed_parts[d][tx[d].k]
           pn == part.part_number
       IN IF pn \notin DOMAIN mro_inventory
          THEN ExceptHandler(d)
          ELSE /\ pn \notin LockedByOther(d)
               /\ LET current == IF pn \in DOMAIN tx[d].rows THEN tx[d].rows[pn]
                                 ELSE mro_inventory[pn].quantity_in_stock
                      updated == NewQuantity(current, part.quantity)
                  IN tx' = [tx EXCEPT ![d] =
                        [k |-> @.k + 1,
                         transactions |-> Append(@.transactions, IssueRow(d, part)),
                         used |-> Append(@.used, UsageRow(d, part, UnitPrice(mro_inventory, pn))),
                         rows |-> [q \in DOMAIN @.rows \cup {pn} |->
                                      IF q = pn THEN updated ELSE @.rows[q]]]]
               /\ UNCHANGED <<db, initial_quantity, dlg, all_parts_data, consumed_parts,
                              message, callbacks, saves, adminVars,
                   connVars, historyVars>>

\* a statement or the commit raises (connection loss, deadlock victim, ...)
save_storage_error(d) ==
    /\ dlg[d] = "saving"
    /\ ExceptHandler(d)

\* the rows of a committed transaction become the committed rows
CommitRows(inv, rows) ==
    [p \in DOMAIN inv |->
        IF p \in DOMAIN rows THEN [inv[p] EXCEPT !.quantity_in_stock = rows[p]] ELSE inv[p]]

\* self.conn.commit(); success message; self.accept(); callback(True)
save_commit(d) ==
    /\ dlg[d] = "saving"
    /\ tx[d].k > Len(consumed_parts[d])
    /\ mro_inventory' = CommitRows(mro_inventory, tx[d].rows)
    /\ mro_stock_transactions' = mro_stock_transactions \o tx[d].transactions
    /\ cm_parts_used' = cm_parts_used \o tx[d].used
    /\ tx' = [tx EXCEPT ![d] = NoTx]
    /\ message' = Plain(d, "Successfully recorded")
    /\ dlg' = [dlg EXCEPT ![d] = "accepted"]
    /\ callbacks' = [callbacks EXCEPT ![d] = Append(@, TRUE)]
    /\ UNCHANGED <<initial_quantity, all_parts_data, consumed_parts, saves, adminVars,
                   connVars, historyVars>>

\* mutant: Cancel ends the dialog without telling the caller
cancel_dialog_Silent(d) ==
    /\ dlg[d] = "open"
    /\ message' = IF consumed_parts[d] # <<>> THEN Plain(d, "Confirm") ELSE message
    /\ \E response \in {"Yes", "No"} :
         IF consumed_parts[d] # <<>> /\ response = "No"
         THEN UNCHANGED dlg
         ELSE dlg' = [dlg EXCEPT ![d] = "rejected"]
    /\ UNCHANGED <<db, initial_quantity, all_parts_data, consumed_parts, tx, callbacks,
                   saves, adminVars,
                   connVars, historyVars>>

\* the Cancel button; the question is asked only when parts are listed
cancel_dialog(d) ==
    /\ dlg[d] = "open"
    /\ message' = IF consumed_parts[d] # <<>> THEN Plain(d, "Confirm") ELSE message
    /\ \E response \in {"Yes", "No"} :
         IF consumed_parts[d] # <<>> /\ response = "No"
         THEN UNCHANGED <<dlg, callbacks>>
         ELSE /\ dlg' = [dlg EXCEPT ![d] = "rejected"]
              /\ callbacks' = [callbacks EXCEPT ![d] = Append(@, FALSE)]
    /\ UNCHANGED <<db, initial_quantity, all_parts_data, consumed_parts, tx, saves, adminVars,
                   connVars, historyVars>>

\* the window's close button
closeEvent(d) ==
    /\ dlg[d] = "open"
    /\ message' = IF consumed_parts[d] # <<>> THEN Plain(d, "Confirm") ELSE message
    /\ \E response \in {"Yes", "No"} :
         IF consumed_parts[d] # <<>> /\ response = "No"
         THEN UNCHANGED <<dlg, callbacks>>
         ELSE /\ dlg' = [dlg EXCEPT ![d] = "rejected"]
              /\ callbacks' = [callbacks EXCEPT ![d] = Append(@, FALSE)]
    /\ UNCHANGED <<db, initial_quantity, all_parts_data, consumed_parts, tx, saves, adminVars,
                   connVars, historyVars>>

\* ---- MROStockManager -------------------------------------------------------
\* mutant: the tables carry no foreign key
Referenced_Never(p) == FALSE

\* rows of a table that reference a part_number (FOREIGN KEY ... REFERENCES mro_inventory)
Referenced(p) ==
    \/ \E i \in 1 .. Len(mro_stock_transactions) : mro_stock_transactions[i].part_number = p
    \/ \E i \in 1 .. Len(cm_parts_used) : cm_parts_used[i].part_number = p

\* add_part_dialog.save_part: INSERT INTO mro_inventory; part_number is UNIQUE
save_part(p, quantity, price) ==
    /\ edit_form = NoForm
    /\ admin_ops < MaxAdminOps
    /\ admin_ops' = admin_ops + 1
    /\ IF p \in DOMAIN mro_inventory
       THEN UNCHANGED <<mro_inventory, initial_quantity>>
       ELSE /\ mro_inventory' = [q \in DOMAIN mro_inventory \cup {p} |->
                IF q = p THEN [quantity_in_stock |-> quantity, unit_price |-> price,
                               status |-> "Active"]
                ELSE mro_inventory[q]]
            /\ initial_quantity' = [initial_quantity EXCEPT ![p] = quantity]
    /\ UNCHANGED <<mro_stock_transactions, cm_parts_used, dialogVars, edit_form,
                   connVars, historyVars>>

\* edit_selected_part: SELECT the row and fill the form with it
edit_selected_part(p) ==
    /\ edit_form = NoForm
    /\ admin_ops < MaxAdminOps
    /\ p \in DOMAIN mro_inventory
    /\ edit_form' = [part_number |-> p,
                     quantity_in_stock |-> mro_inventory[p].quantity_in_stock,
                     unit_price |-> mro_inventory[p].unit_price,
                     status |-> mro_inventory[p].status]
    /\ UNCHANGED <<db, initial_quantity, dialogVars, admin_ops,
                   connVars, historyVars>>

\* what the user can do to the form before "Update Part": nothing, or retype one field
FieldEdits(form) ==
    {form,
     [form EXCEPT !.quantity_in_stock = MaxStock],
     [form EXCEPT !.unit_price = 2],
     [form EXCEPT !.status = "Inactive"]}

\* UPDATE mro_inventory SET ..., quantity_in_stock = %s, unit_price = %s, ..., status = %s
UpdatedRow(fields) ==
    [quantity_in_stock |-> fields.quantity_in_stock,
     unit_price |-> fields.unit_price,
     status |-> fields.status]

\* edit_selected_part.update_part: the fields as the user left them are written
update_part(fields) ==
    /\ edit_form # NoForm
    /\ edit_form.part_number \notin Locked
    /\ LET p == edit_form.part_number
       IN mro_inventory' = [q \in DOMAIN mro_inventory |->
                              IF q = p THEN UpdatedRow(fields) ELSE mro_inventory[q]]
    /\ edit_form' = NoForm
    /\ admin_ops' = admin_ops + 1
    /\ UNCHANGED <<mro_stock_transactions, cm_parts_used, initial_quantity, dialogVars,
                   connVars, historyVars>>

\* the edit dialog's Cancel button
cancel_edit ==
    /\ edit_form # NoForm
    /\ edit_form' = NoForm
    /\ admin_ops' = admin_ops + 1
    /\ UNCHANGED <<db, initial_quantity, dialogVars,
                   connVars, historyVars>>

\* delete_selected_part, confirmed: DELETE FROM mro_inventory WHERE part_number = %s
delete_selected_part(p) ==
    /\ edit_form = NoForm
    /\ admin_ops < MaxAdminOps
    /\ p \in DOMAIN mro_inventory
    /\ p \notin Locked
    /\ admin_ops' = admin_ops + 1
    /\ IF Referenced(p)
       THEN UNCHANGED mro_inventory
       ELSE mro_inventory' = [q \in DOMAIN mro_inventory \ {p} |-> mro_inventory[q]]
    /\ UNCHANGED <<mro_stock_transactions, cm_parts_used, initial_quantity, dialogVars, edit_form,
                   connVars, historyVars>>

\* import_from_file: csv.DictReader rows go to import_part_from_dict one by one on
\* self.conn; an exception of a row is caught by a bare "except:" and counted as
\* skipped; self.conn.commit() follows the loop.  failure says what goes wrong:
\*   "none"       nothing
\*   "statement"  the INSERT of row `at` raises a database error: the transaction is
\*                aborted, every later INSERT raises too, and COMMIT of an aborted
\*                transaction rolls it back without raising
\*   "file"       reading row `at` from the file raises: the outer handler shows
\*                "Import Error" and neither commits nor rolls back
ImportFailures == {"none", "statement", "file"}

\* a row of the file: a part with the quantity and price columns of the file
ImportedRow == [quantity_in_stock |-> 1, unit_price |-> 1, status |-> "Active"]

\* INSERT ... ON CONFLICT (part_number) DO NOTHING, for the rows before `at`
Inserted(inv, pending, rows, at) ==
    LET new == {rows[i] : i \in 1 .. at - 1} \ DOMAIN inv
    IN [p \in DOMAIN pending \cup new |-> IF p \in DOMAIN pending THEN pending[p] ELSE ImportedRow]

\* self.conn.commit(): the pending rows become committed rows
CommitPending(inv, pending) ==
    [p \in DOMAIN inv \cup DOMAIN pending |-> IF p \in DOMAIN inv THEN inv[p] ELSE pending[p]]

NoCall == [op |-> "none", days |-> 0, today |-> 0, raised |-> FALSE, value |-> <<>>]

MaxImports == 1
import_from_file(rows, failure, at) ==
    /\ edit_form = NoForm
    /\ Len(import_log) < MaxImports
    /\ at \in 1 .. Len(rows)
    /\ LET n == IF failure = "none" THEN Len(rows) + 1 ELSE at
           pending == Inserted(mro_inventory, conn_tx, rows, n)
           imported_count == n - 1
           skipped_count == Len(rows) - imported_count
       IN /\ import_log' = Append(import_log, [failure |-> failure,
                                               imported_count |-> imported_count,
                                               skipped_count |-> skipped_count])
          /\ IF failure = "file"
             THEN /\ message' = Plain(0, "Import Error")
                  /\ conn_tx' = pending
                  /\ UNCHANGED <<mro_inventory, initial_quantity>>
             ELSE /\ message' = Box(0, "Import Complete", NULL, imported_count, skipped_count)
                  /\ conn_tx' = NoRows
                  /\ IF failure = "statement"
                     THEN UNCHANGED <<mro_inventory, initial_quantity>>
                     ELSE /\ mro_inventory' = CommitPending(mro_inventory, pending)
                          /\ initial_quantity' = [p \in Parts |->
                                IF p \in DOMAIN pending THEN pending[p].quantity_in_stock
                                ELSE initial_quantity[p]]
    /\ returned' = NoCall
    /\ previous' = NoCall
    /\ UNCHANGED <<mro_stock_transactions, cm_parts_used, dlg, all_parts_data, consumed_parts,
                   tx, callbacks, saves, adminVars, tables, today>>

\* ---- EquipmentHistory ------------------------------------------------------------
\* Dates are day numbers; strftime('%Y-%m-%d') strings compare as the days do.
Window == 365
Today0 == 3 * Window
EdgeDay == Today0 - Window
NoDate == 0 - 1
Dates == {EdgeDay, Today0}
Days == {Window, 2 * Window}

NoEquipment == [status |-> NULL, monthly_pm |-> NULL, annual_pm |-> NULL]
EquipmentRows == [status : {"Active", "Inactive"}, monthly_pm : {"X", ""}, annual_pm : {"X", ""}]
PMRows == [completion_date : Dates]
CMRows == [cm_number : {"CM-001"}, reported_date : Dates, closed_date : {NoDate, Today0}]
PartRows == [requested_date : Dates]
AuditRows == [timestamp : Dates]

SeqsUpTo(S, n) == UNION {[1 .. k -> S] : k \in 0 .. n}
Rows(n, row) == [i \in 1 .. n |-> row]

\* "ORDER BY <field> DESC" and "events.sort(key=..., reverse=True)": descending, and
\* elements with equal keys keep the order they had (rows: the table's order)
\* mutant: an element goes behind the elements that have its key
RECURSIVE InsertDesc_Unstable(_, _, _)
InsertDesc_Unstable(x, sorted, field) ==
    IF sorted = <<>> THEN <<x>>
    ELSE IF Head(sorted)[field] < x[field] THEN <<x>> \o sorted
    ELSE <<Head(sorted)>> \o InsertDesc_Unstable(x, Tail(sorted), field)

RECURSIVE InsertDesc(_, _, _)
InsertDesc(x, sorted, field) ==
    IF sorted = <<>> THEN <<x>>
    ELSE IF Head(sorted)[field] <= x[field] THEN <<x>> \o sorted
    ELSE <<Head(sorted)>> \o InsertDesc(x, Tail(sorted), field)

RECURSIVE SortDesc(_, _)
SortDesc(rows, field) ==
    IF rows = <<>> THEN <<>>
    ELSE InsertDesc(Head(rows), SortDesc(Tail(rows), field), field)

\* "WHERE ... AND <field> >= %s"
Since(rows, field, start_date) == SelectSeq(rows, LAMBDA r : r[field] >= start_date)

\* _get_pm_history, _get_cm_history, _get_parts_history, _get_status_changes
CompleteHistory(start_date) ==
    [pm_completions |-> SortDesc(Since(pm_completions, "completion_date", start_date),
                                 "completion_date"),
     corrective_maintenance |-> SortDesc(Since(corrective_maintenance, "reported_date", start_date),
                                         "reported_date"),
     parts_used |-> SortDesc(Since(cm_parts_requests, "requested_date", start_date),
                             "requested_date"),
     status_changes |-> SortDesc(Since(audit_log, "timestamp", start_date), "timestamp")]

Event(date, type, row) == [date |-> date, type |-> type, row |-> row]

RECURSIVE PMEvents(_)
PMEvents(rows) ==
    IF rows = <<>> THEN <<>>
    ELSE <<Event(Head(rows).completion_date, "PM", Head(rows))>> \o PMEvents(Tail(rows))

\* mutant: every corrective record gets a close event
RECURSIVE CMEvents_AlwaysClosed(_)
CMEvents_AlwaysClosed(rows) ==
    IF rows = <<>> THEN <<>>
    ELSE <<Event(Head(rows).reported_date, "CM_OPEN", Head(rows)),
           Event(Head(rows).closed_date, "CM_CLOSE", Head(rows))>>
         \o CMEvents_AlwaysClosed(Tail(rows))

\* one CM_OPEN event, and a CM_CLOSE event "if cm['date_closed']"
RECURSIVE CMEvents(_)
CMEvents(rows) ==
    IF rows = <<>> THEN <<>>
    ELSE <<Event(Head(rows).reported_date, "CM_OPEN", Head(rows))>>
         \o (IF Head(rows).closed_date # NoDate
             THEN <<Event(Head(rows).closed_date, "CM_CLOSE", Head(rows))>> ELSE <<>>)
         \o CMEvents(Tail(rows))

RECURSIVE PartEvents(_)
PartEvents(rows) ==
    IF rows = <<>> THEN <<>>
    ELSE <<Event(Head(rows).requested_date, "PART", Head(rows))>> \o PartEvents(Tail(rows))

RECURSIVE StatusEvents(_)
StatusEvents(rows) ==
    IF rows = <<>> THEN <<>>
    ELSE <<Event(Head(rows).timestamp, "STATUS", Head(rows))>> \o StatusEvents(Tail(rows))

\* mutant: the events of the previous call are kept and the new ones added to them
TimelineEvents_Accumulated(days) ==
    LET history == CompleteHistory(today - days)
    IN (IF returned.op = "get_timeline_events" THEN returned.value ELSE <<>>)
       \o SortDesc(PMEvents(history.pm_completions)
                   \o CMEvents(history.corrective_maintenance)
                   \o PartEvents(history.parts_used)
                   \o StatusEvents(history.status_changes), "date")

\* get_timeline_events: start_date = now - days; the four lists in turn; the sort
TimelineEvents(days) ==
    LET history == CompleteHistory(today - days)
    IN SortDesc(PMEvents(history.pm_completions)
                \o CMEvents(history.corrective_maintenance)
                \o PartEvents(history.parts_used)
                \o StatusEvents(history.status_changes), "date")

\* expected_pms: 12 for monthly_pm = 'X', plus 1 for annual_pm = 'X'
MonthlyPMs == 12
AnnualPMs == 1
ExpectedPMs(equip_row) ==
    (IF equip_row.monthly_pm = "X" THEN MonthlyPMs ELSE 0)
    + (IF equip_row.annual_pm = "X" THEN AnnualPMs ELSE 0)

Min(a, b) == IF a <= b THEN a ELSE b
Max(a, b) == IF a >= b THEN a ELSE b

\* mutant: the percentage is not capped
PMCompliance_Uncapped(completed_pms, expected_pms) ==
    IF expected_pms > 0 THEN (completed_pms * 100) \div expected_pms ELSE 0

\* min(100, int((completed_pms / expected_pms) * 100)) if expected_pms > 0, else the 0
\* the metrics start with
PMCompliance(completed_pms, expected_pms) ==
    IF expected_pms > 0 THEN Min(100, (completed_pms * 100) \div expected_pms) ELSE 0

\* round(cm_count / 12, 1), in tenths: round() goes to the nearer tenth and, for
\* a value halfway between two, to the even one
CMFrequency(cm_count) ==
    LET low == (cm_count * 10) \div 12
        rest == (cm_count * 10) % 12
    IN IF rest > 6 \/ (rest = 6 /\ low % 2 = 1) THEN low + 1 ELSE low

\* mutant: the deduction for an equipment that is not Active is missing
HealthScore_NoStatus(pm_compliance, cm_frequency, status) ==
    LET score == 1000 - (100 - pm_compliance) * 3
                 - (IF cm_frequency > 10 THEN Min(200, (cm_frequency - 10) * 10) ELSE 0)
    IN Max(0, IF score >= 0 THEN score \div 10 ELSE 0 - ((0 - score) \div 10))

\* the score, computed in tenths (cm_frequency is in tenths too):
\* 100 - (100 - pm_compliance) * 0.3 - min(20, (cm_frequency - 1) * 10) - 30,
\* then max(0, int(score)); int() drops the fraction towards zero
HealthScore(pm_compliance, cm_frequency, status) ==
    LET score == 1000 - (100 - pm_compliance) * 3
                 - (IF cm_frequency > 10 THEN Min(200, (cm_frequency - 10) * 10) ELSE 0)
                 - (IF status # "Active" THEN 300 ELSE 0)
    IN Max(0, IF score >= 0 THEN score \div 10 ELSE 0 - ((0 - score) \div 10))

\* mutant: the status message is appended first
Recommendations_StatusFirst(pm_compliance, cm_frequency, parts_count, status) ==
    (IF status # "Active" THEN <<"Equipment status is '" \o status \o "' - review and update">>
     ELSE <<>>)
    \o (IF pm_compliance < 80 THEN <<"Improve PM compliance - currently below 80%">> ELSE <<>>)
    \o (IF cm_frequency > 20 THEN <<"High CM frequency - investigate root causes">> ELSE <<>>)
    \o (IF parts_count > 20 THEN <<"High parts usage - review equipment reliability">> ELSE <<>>)

\* the recommendations, in the order the code appends them (cm_frequency is in
\* tenths: "> 2" is "> 20")
Recommendations(pm_compliance, cm_frequency, parts_count, status) ==
    (IF pm_compliance < 80 THEN <<"Improve PM compliance - currently below 80%">> ELSE <<>>)
    \o (IF cm_frequency > 20 THEN <<"High CM frequency - investigate root causes">> ELSE <<>>)
    \o (IF parts_count > 20 THEN <<"High parts usage - review equipment reliability">> ELSE <<>>)
    \o (IF status # "Active" THEN <<"Equipment status is '" \o status \o "' - review and update">>
        ELSE <<>>)

\* _display_health_score: the lines shown under "RECOMMENDATIONS:"
DisplayedRecommendations(health) ==
    IF health.recommendations = <<>>
    THEN <<"No issues detected. Equipment is performing well.">>
    ELSE health.recommendations

\* the metrics dictionary as it is first built, returned when there is no equipment row
DefaultMetrics ==
    [health_score |-> 0, pm_compliance |-> 0, cm_frequency |-> 0, parts_count |-> 0,
     status |-> "Unknown", recommendations |-> <<>>]

\* get_equipment_health_score for an equipment that has a row
HealthMetrics ==
    LET one_year_ago == today - Window
        completed_pms == Len(Since(pm_completions, "completion_date", one_year_ago))
        cm_count == Len(Since(corrective_maintenance, "reported_date", one_year_ago))
        parts_count == Len(Since(cm_parts_requests, "requested_date", one_year_ago))
        pm_compliance == PMCompliance(completed_pms, ExpectedPMs(equipment))
        cm_frequency == CMFrequency(cm_count)
    IN [health_score |-> HealthScore(pm_compliance, cm_frequency, equipment.status),
        pm_compliance |-> pm_compliance,
        cm_frequency |-> cm_frequency,
        parts_count |-> parts_count,
        status |-> equipment.status,
        recommendations |-> Recommendations(pm_compliance, cm_frequency, parts_count,
                                            equipment.status)]

Call(op, days, raised, value) ==
    [op |-> op, days |-> days, today |-> today, raised |-> raised, value |-> value]

\* mutant: a call in which a query raised returns what it has, with 0 for the
\* values it could not read
Finish_Partial(op, days, value) ==
    /\ previous' = returned
    /\ \E raises \in BOOLEAN :
         IF raises
         THEN /\ returned' = Call(op, days, TRUE, DefaultMetrics)
              /\ conn_tx' = NoRows
              /\ UNCHANGED <<mro_inventory, initial_quantity>>
         ELSE /\ returned' = Call(op, days, FALSE, value)
              /\ conn_tx' = NoRows
              /\ mro_inventory' = CommitPending(mro_inventory, conn_tx)
              /\ initial_quantity' = [p \in Parts |->
                    IF p \in DOMAIN conn_tx THEN conn_tx[p].quantity_in_stock
                    ELSE initial_quantity[p]]
    /\ UNCHANGED <<mro_stock_transactions, cm_parts_used, dialogVars, adminVars, import_log,
                   tables, today>>

\* how a call of the history manager ends: a query raises and the handler rolls
\* self.conn back and re-raises, or "self.conn.commit()" and the value is returned
Finish(op, days, value) ==
    /\ previous' = returned
    /\ \E raises \in BOOLEAN :
         IF raises
         THEN /\ returned' = Call(op, days, TRUE, <<>>)
              /\ conn_tx' = NoRows
              /\ UNCHANGED <<mro_inventory, initial_quantity>>
         ELSE /\ returned' = Call(op, days, FALSE, value)
              /\ conn_tx' = NoRows
              /\ mro_inventory' = CommitPending(mro_inventory, conn_tx)
              /\ initial_quantity' = [p \in Parts |->
                    IF p \in DOMAIN conn_tx THEN conn_tx[p].quantity_in_stock
                    ELSE initial_quantity[p]]
    /\ UNCHANGED <<mro_stock_transactions, cm_parts_used, dialogVars, adminVars, import_log,
                   tables, today>>

\* _load_summary: get_complete_history(bfm_no, start_date = now - days)
get_complete_history(days) ==
    Finish("get_complete_history", days, CompleteHistory(today - days))

get_timeline_events(days) ==
    Finish("get_timeline_events", days, TimelineEvents(days))

get_equipment_health_score ==
    IF equipment = NoEquipment
    THEN \* "if not equip_row: return metrics": neither commit nor rollback
         /\ previous' = returned
         /\ \E raises \in BOOLEAN :
              IF raises
              THEN /\ returned' = Call("get_equipment_health_score", 0, TRUE, <<>>)
                   /\ conn_tx' = NoRows
              ELSE /\ returned' = Call("get_equipment_health_score", 0, FALSE, DefaultMetrics)
                   /\ UNCHANGED conn_tx
         /\ UNCHANGED <<db, initial_quantity, dialogVars, adminVars, import_log, tables, today>>
    ELSE Finish("get_equipment_health_score", 0, HealthMetrics)

\* the clock passes midnight
MaxTicks == 1
tick ==
    /\ today < Today0 + MaxTicks
    /\ today' = today + 1
    /\ UNCHANGED <<db, initial_quantity, dialogVars, adminVars, connVars, tables,
                   returned, previous>>

\* the PM module records a completion for the equipment (a write between two reads)
MaxRows == 1
record_pm_completion(row) ==
    /\ Len(pm_completions) < MaxRows
    /\ pm_completions' = Append(pm_completions, row)
    /\ returned' = NoCall
    /\ previous' = NoCall
    /\ UNCHANGED <<db, initial_quantity, dialogVars, adminVars, connVars, equipment,
                   corrective_maintenance, cm_parts_requests, audit_log, today>>

\* ---- get_maintenance_trends -----------------------------------------------------
\* The calendar: day number 0 is the first of January of EpochYear, which makes
\* Today0 the 31st of December 2026.
EpochYear == 2024
IsLeap(year) == year % 4 = 0 /\ (year % 100 # 0 \/ year % 400 = 0)
DaysInYear(year) == IF IsLeap(year) THEN 366 ELSE 365
DaysInMonth(year, month) ==
    IF month = 2 THEN (IF IsLeap(year) THEN 29 ELSE 28)
    ELSE IF month \in {4, 6, 9, 11} THEN 30 ELSE 31

\* the date of a day number, as datetime arithmetic gives it
RECURSIVE InYear(_, _, _)
InYear(year, month, n) ==
    IF n < DaysInMonth(year, month) THEN [year |-> year, month |-> month, day |-> n + 1]
    ELSE InYear(year, month + 1, n - DaysInMonth(year, month))

RECURSIVE FromYear(_, _)
FromYear(year, n) ==
    IF n < DaysInYear(year) THEN InYear(year, 1, n)
    ELSE FromYear(year + 1, n - DaysInYear(year))

Date(n) == FromYear(EpochYear, n)

\* the day number of a date: a 'YYYY-MM-DD' string compares with the dates of the
\* rows as this number does with their day numbers
RECURSIVE YearStart(_)
YearStart(year) ==
    IF year > EpochYear THEN YearStart(year - 1) + DaysInYear(year - 1) ELSE 0

RECURSIVE MonthOffset(_, _)
MonthOffset(year, month) ==
    IF month > 1 THEN MonthOffset(year, month - 1) + DaysInMonth(year, month - 1) ELSE 0

DayNumber(year, month, day) == YearStart(year) + MonthOffset(year, month) + day - 1

\* month_date.strftime('%Y-%m')
Label(n) == [year |-> Date(n).year, month |-> Date(n).month]

\* "for i in range(months): month_date = current_date - timedelta(days=30 * i);
\* trends['months'].insert(0, ...)"
MonthLabels(now, months) == [k \in 1 .. months |-> Label(now - 30 * (months - k))]

\* month_start = f"{month}-01"
MonthStart(label) == DayNumber(label.year, label.month, 1)

\* month_end: f"{year + 1}-01-01" if mon == 12, else f"{year}-{mon + 1:02d}-01"
MonthEnd(label) ==
    IF label.month = 12 THEN DayNumber(label.year + 1, 1, 1)
    ELSE DayNumber(label.year, label.month + 1, 1)

\* mutant: a row dated on the first day of the next month is counted too
InMonth_Inclusive(rows, field, label) ==
    SelectSeq(rows, LAMBDA r : r[field] >= MonthStart(label) /\ r[field] <= MonthEnd(label))

\* "AND <field> >= %s AND <field> < %s" with (month_start, month_end)
InMonth(rows, field, label) ==
    SelectSeq(rows, LAMBDA r : r[field] >= MonthStart(label) /\ r[field] < MonthEnd(label))

\* COALESCE(SUM(labor_hours), 0): rows whose labor_hours is NULL add nothing
NoHours == 0 - 1
RECURSIVE SumHours(_)
SumHours(rows) ==
    IF rows = <<>> THEN 0
    ELSE (IF Head(rows).labor_hours = NoHours THEN 0 ELSE Head(rows).labor_hours)
         + SumHours(Tail(rows))

\* the dictionary get_maintenance_trends returns ('monthly_parts_cost' stays empty)
Trends(months) ==
    LET labels == MonthLabels(today, months)
    IN [months |-> labels,
        monthly_pm_counts |->
            [k \in 1 .. months |-> Len(InMonth(pm_completions, "completion_date", labels[k]))],
        monthly_cm_counts |->
            [k \in 1 .. months |-> Len(InMonth(corrective_maintenance, "reported_date", labels[k]))],
        monthly_labor_hours |->
            [k \in 1 .. months |->
                SumHours(InMonth(pm_completions, "completion_date", labels[k]))
                + SumHours(InMonth(corrective_maintenance, "reported_date", labels[k]))],
        monthly_parts_cost |-> <<>>]

\* the months a caller asks for
MaxMonths == 3
get_maintenance_trends(months) ==
    Finish("get_maintenance_trends", months, Trends(months))

\* the state of the stock tables, dialogs and stock manager at the start
InitStock ==
    /\ mro_inventory = [p \in Parts |->
              [quantity_in_stock |-> IF p = "BRG-100" THEN MaxStock ELSE 1,
               unit_price |-> 1, status |-> "Active"]]
    /\ mro_stock_transactions = <<>>
    /\ cm_parts_used = <<>>
    /\ initial_quantity = [p \in Parts |-> mro_inventory[p].quantity_in_stock]
    /\ dlg = [d \in Dialogs |-> "unopened"]
    /\ all_parts_data = [d \in Dialogs |-> NoRows]
    /\ consumed_parts = [d \in Dialogs |-> <<>>]
    /\ tx = [d \in Dialogs |-> NoTx]
    /\ message = Plain(0, "")
    /\ callbacks = [d \in Dialogs |-> <<>>]
    /\ saves = [d \in Dialogs |-> 0]
    /\ edit_form = NoForm
    /\ admin_ops = 0
    /\ conn_tx = NoRows
    /\ import_log = <<>>

\* no call of the history manager yet, on the day the program is started
InitCalls ==
    /\ today = Today0
    /\ returned = NoCall
    /\ previous = NoCall

Init ==
    /\ InitStock
    /\ InitCalls
    /\ equipment = NoEquipment
    /\ pm_completions = <<>>
    /\ corrective_maintenance = <<>>
    /\ cm_parts_requests = <<>>
    /\ audit_log = <<>>

\* the steps of the consumption dialogs
NextConsumption ==
    \/ \E d \in Dialogs : open_dialog(d)
    \/ \E d \in Dialogs, p \in Parts, t \in QtyTexts : add_consumed_part(d, p, t)
    \/ \E d \in Dialogs, p \in Parts : remove_consumed_part(d, p)
    \/ \E d \in Dialogs : save_and_close(d)
    \/ \E d \in Dialogs : save_item(d)
    \/ \E d \in Dialogs : save_storage_error(d)
    \/ \E d \in Dialogs : save_commit(d)
    \/ \E d \in Dialogs : cancel_dialog(d)
    \/ \E d \in Dialogs : closeEvent(d)

\* the steps of the stock manager
NextStock ==
    \/ \E p \in Parts, q \in 0 .. MaxStock, price \in Prices : save_part(p, q, price)
    \/ \E p \in Parts : edit_selected_part(p)
    \/ \E fields \in FieldEdits(edit_form) : update_part(fields)
    \/ cancel_edit
    \/ \E p \in Parts : delete_selected_part(p)

Next == NextConsumption \/ NextStock

\* the whole program: the consumption dialogs of two users and the stock manager
Spec == Init /\ [][Next]_vars

\* consumption dialogs only: no add, edit or delete of parts
SpecConsumption == Init /\ [][NextConsumption]_vars

\* the steps of one consumption dialog
NextDialog(d) ==
    \/ open_dialog(d)
    \/ \E p \in Parts, t \in QtyTexts : add_consumed_part(d, p, t)
    \/ \E p \in Parts : remove_consumed_part(d, p)
    \/ save_and_close(d)
    \/ save_item(d)
    \/ save_storage_error(d)
    \/ save_commit(d)
    \/ cancel_dialog(d)
    \/ closeEvent(d)

NextSingle == NextDialog(1) \/ NextStock

\* one technician's consumption dialog and the stock manager
SpecSingle == Init /\ [][NextSingle]_vars

\* the files the stock manager imports: up to MaxFileRows rows, each naming a part
MaxFileRows == 2
Files == UNION {[1 .. k -> Parts] : k \in 1 .. MaxFileRows}

\* one application: the stock manager deletes and imports parts and the history
\* viewer is opened, all on the application's connection
InitImport ==
    /\ InitStock
    /\ InitCalls
    /\ equipment = [status |-> "Active", monthly_pm |-> "X", annual_pm |-> ""]
    /\ pm_completions = <<[completion_date |-> Today0, labor_hours |-> 2]>>
    /\ corrective_maintenance = <<>>
    /\ cm_parts_requests = <<>>
    /\ audit_log = <<>>

NextImport ==
    \/ \E p \in Parts : delete_selected_part(p)
    \/ \E rows \in Files, failure \in ImportFailures, at \in 1 .. MaxFileRows :
          import_from_file(rows, failure, at)
    \/ \E days \in Days : get_complete_history(days)
    \/ \E days \in Days : get_timeline_events(days)
    \/ get_equipment_health_score

SpecImport == InitImport /\ [][NextImport]_vars

\* the three analyses of the history manager asked one after the other, on the day
\* the program was started or after midnight
NextAnalysis ==
    \/ \E days \in Days : get_timeline_events(days)
    \/ get_equipment_health_score
    \/ \E months \in 1 .. MaxMonths : get_maintenance_trends(months)
    \/ tick

SpecAnalysis == InitImport /\ [][NextAnalysis]_vars

\* the timeline and health views over small tables, the clock, and a write by the
\* PM module
InitHistory ==
    /\ InitStock
    /\ InitCalls
    /\ equipment = [status |-> "Active", monthly_pm |-> "X", annual_pm |-> ""]
    /\ pm_completions \in SeqsUpTo(PMRows, MaxRows)
    /\ corrective_maintenance \in SeqsUpTo(CMRows, MaxRows)
    /\ cm_parts_requests \in SeqsUpTo(PartRows, 1)
    /\ audit_log \in SeqsUpTo(AuditRows, 1)

NextHistory ==
    \/ \E days \in Days : get_timeline_events(days)
    \/ get_equipment_health_score
    \/ tick
    \/ \E row \in PMRows : record_pm_completion(row)

SpecHistory == InitHistory /\ [][NextHistory]_vars

\* get_equipment_health_score over every equipment row and every count of rows in
\* the window up to the bounds
MaxCompleted == 14
MaxCMs == 40
MaxParts == 21
InitHealth ==
    /\ InitStock
    /\ InitCalls
    /\ equipment \in EquipmentRows \cup {NoEquipment}
    /\ pm_completions \in {Rows(n, [completion_date |-> Today0]) : n \in 0 .. MaxCompleted}
    /\ corrective_maintenance \in
          {Rows(n, [cm_number |-> "CM-001", reported_date |-> Today0, closed_date |-> NoDate]) :
              n \in 0 .. MaxCMs}
    /\ cm_parts_requests \in {Rows(n, [requested_date |-> Today0]) :
                                 n \in {0, MaxParts - 1, MaxParts}}
    /\ audit_log = <<>>

NextHealth == get_equipment_health_score

SpecHealth == InitHealth /\ [][NextHealth]_vars

\* get_maintenance_trends on every day from the 15th of December 2026 to the
\* 31st of January 2027, over rows dated around the turn of the year
FirstToday == DayNumber(2026, 12, 15)
LastToday == DayNumber(2027, 1, 31)
TrendPMRows ==
    [completion_date : {DayNumber(2026, 11, 30), DayNumber(2026, 12, 1),
                        DayNumber(2026, 12, 31), DayNumber(2027, 1, 1)},
     labor_hours : {NoHours, 2}]
TrendCMRows ==
    [cm_number : {"CM-001"},
     reported_date : {DayNumber(2026, 12, 31), DayNumber(2027, 1, 1)},
     closed_date : {NoDate},
     labor_hours : {1}]

InitTrends ==
    /\ InitStock
    /\ today \in FirstToday .. LastToday
    /\ returned = NoCall
    /\ previous = NoCall
    /\ equipment = [status |-> "Active", monthly_pm |-> "X", annual_pm |-> ""]
    /\ pm_completions \in SeqsUpTo(TrendPMRows, 1)
    /\ corrective_maintenance \in SeqsUpTo(TrendCMRows, 1)
    /\ cm_parts_requests = <<>>
    /\ audit_log = <<>>

NextTrends == \E months \in 1 .. MaxMonths : get_maintenance_trends(months)

SpecTrends == InitTrends /\ [][NextTrends]_vars

\* one consumption dialog, and the stock manager at work while no save is running
NextBatch ==
    \/ NextDialog(1)
    \/ dlg[1] # "saving" /\ NextStock

SpecBatch == Init /\ [][NextBatch]_vars

\* one consumption dialog in which the technician also types "nan"
NextQuantity ==
    \/ NextDialog(1)
    \/ \E p \in Parts : add_consumed_part(1, p, NaNText)

SpecQuantity == Init /\ [][NextQuantity]_vars

\* ---- properties ----------------------------------------------------------------
Items(d) == {consumed_parts[d][i] : i \in 1 .. Len(consumed_parts[d])}
Saved(d) == dlg[d] = "accepted" /\ consumed_parts[d] # <<>>

\* C1: under consumption saves only (the program has no receipt operation), every
\* part's quantity_in_stock equals the quantity it was created with plus the signed
\* sum of the ledger rows recorded for it.
C1_LedgerConsistency ==
    \A p \in DOMAIN mro_inventory :
        mro_inventory[p].quantity_in_stock
            = initial_quantity[p] + SumQuantity(mro_stock_transactions, p)

\* two saves have been committed and the ledger sum of a part is not zero
C1_Witness ==
    /\ \A d \in Dialogs : Saved(d)
    /\ \E p \in DOMAIN mro_inventory : SumQuantity(mro_stock_transactions, p) < 0

\* C2: no sequence of consumption saves leaves a quantity_in_stock below 0.
C2_NonNegative ==
    \A p \in DOMAIN mro_inventory : mro_inventory[p].quantity_in_stock >= 0

\* the ledger and usage rows a dialog's batch has committed
RowsOf(d, rows) == SelectSeq(rows, LAMBDA r : r.notes = <<"CM Work Order: ", cm_number(d)>>)
UsedOf(d, rows) == SelectSeq(rows, LAMBDA r : r.cm_number = cm_number(d))

\* the quantity a dialog's pending list requests of a part
RECURSIVE Requested(_, _)
Requested(consumed, p) ==
    IF consumed = <<>> THEN 0
    ELSE (IF Head(consumed).part_number = p THEN Head(consumed).quantity ELSE 0)
         + Requested(Tail(consumed), p)

\* the rows appended to a table by a step
Appended(old, new) == SubSeq(new, Len(old) + 1, Len(new))
CountPart(rows, p) == Cardinality({i \in 1 .. Len(rows) : rows[i].part_number = p})

Committing(d) == dlg[d] = "saving" /\ dlg'[d] = "accepted"
Failing(d) == dlg[d] = "saving" /\ dlg'[d] = "open"

\* C3: a save is all-or-nothing.  The step that ends a save in failure leaves the
\* three tables unchanged; until a dialog's save commits no ledger or usage row of
\* its batch exists; the commit step adds one ledger and one usage row per item
\* and lowers every part by the quantity requested of it.
C3_AllOrNothing ==
    [][\A d \in Dialogs :
         /\ Failing(d) => UNCHANGED db
         /\ dlg'[d] # "accepted" =>
               RowsOf(d, mro_stock_transactions') = <<>> /\ UsedOf(d, cm_parts_used') = <<>>
         /\ Committing(d) =>
               /\ Len(RowsOf(d, mro_stock_transactions')) = Len(consumed_parts[d])
               /\ Len(UsedOf(d, cm_parts_used')) = Len(consumed_parts[d])
               /\ \A p \in DOMAIN mro_inventory :
                     mro_inventory'[p].quantity_in_stock
                         = mro_inventory[p].quantity_in_stock - Requested(consumed_parts[d], p)
      ]_vars

\* a save of a two-item batch has failed, and another batch is committed
C3_Witness ==
    \E d \in Dialogs :
        /\ message = Plain(d, "Failed to record parts consumption")
        /\ Len(consumed_parts[d]) = 2
        /\ dlg[d] = "open"
        /\ mro_stock_transactions # <<>>

\* C4: two sessions on the same part whose requests together exceed the stock
\* never both succeed.
C4_NotBothSucceed ==
    ~ \E i1 \in Items(1), i2 \in Items(2) :
        /\ Saved(1) /\ Saved(2)
        /\ i1.part_number = i2.part_number
        /\ i1.quantity + i2.quantity > initial_quantity[i1.part_number]

\* C5: when an item is recorded, the stored quantity of its part is positive and
\* covers the requested quantity.
C5_FreshCheck ==
    [][\A d \in Dialogs :
         (dlg[d] = "saving" /\ dlg'[d] = "saving" /\ tx'[d].k = tx[d].k + 1) =>
            LET part == consumed_parts[d][tx[d].k]
                stored == mro_inventory[part.part_number].quantity_in_stock
            IN stored > 0 /\ part.quantity <= stored
      ]_vars

\* C6: no committed decrement is lost.  A commit lowers the stored quantity by what
\* was requested, and an edit that writes back the quantity its form was loaded
\* with does not overwrite a different stored quantity.
C6_NoLostUpdate ==
    [][/\ \A d \in Dialogs : Committing(d) =>
             \A p \in DOMAIN mro_inventory :
                 mro_inventory'[p].quantity_in_stock
                     = mro_inventory[p].quantity_in_stock - Requested(consumed_parts[d], p)
       /\ (edit_form # NoForm /\ edit_form' = NoForm
           /\ edit_form.part_number \in DOMAIN mro_inventory
           /\ mro_inventory'[edit_form.part_number].quantity_in_stock
                  = edit_form.quantity_in_stock)
          => mro_inventory[edit_form.part_number].quantity_in_stock
                  = edit_form.quantity_in_stock
      ]_vars

\* C7: the quantity_in_stock of an existing part changes only in a step that
\* appends ledger rows for the part whose quantities sum to the change.
C7_OnlyLedgeredWrites ==
    [][\A p \in DOMAIN mro_inventory \cap DOMAIN mro_inventory' :
         mro_inventory'[p].quantity_in_stock # mro_inventory[p].quantity_in_stock =>
            /\ Len(mro_stock_transactions') > Len(mro_stock_transactions)
            /\ SumQuantity(Appended(mro_stock_transactions, mro_stock_transactions'), p)
                  = mro_inventory'[p].quantity_in_stock - mro_inventory[p].quantity_in_stock
      ]_vars

\* C8: the pending list of a dialog never holds a part twice; the step that shows
\* the "already in the consumed list" warning changes neither the pending lists nor
\* the tables; no work order has two usage rows for one part.
C8_NoDuplicatePart ==
    [][/\ \A d \in Dialogs : \A i, j \in 1 .. Len(consumed_parts'[d]) :
             i # j => consumed_parts'[d][i].part_number # consumed_parts'[d][j].part_number
       /\ (message' # message /\ message'.box = "already in the consumed list")
             => UNCHANGED <<db, consumed_parts, tx>>
       /\ \A d \in Dialogs, p \in Parts : CountPart(UsedOf(d, cm_parts_used'), p) <= 1
      ]_vars

\* the duplicate warning is on screen and the list still holds the part once
C8_Witness ==
    /\ message.box = "already in the consumed list"
    /\ Len(consumed_parts[message.dialog]) >= 1
    /\ dlg[message.dialog] = "open"

\* C9: the commit of a save adds, for each item, one ledger row with quantity
\* -requested, type Issue and the work order as its reference, one usage row with
\* quantity_used = requested, and lowers the part's quantity by requested.
C9_SaveEffect ==
    [][\A d \in Dialogs : Committing(d) =>
         \A item \in Items(d) :
            LET pn == item.part_number
                rows == Appended(mro_stock_transactions, mro_stock_transactions')
                used == Appended(cm_parts_used, cm_parts_used')
            IN /\ CountPart(rows, pn) = 1
               /\ \A i \in 1 .. Len(rows) : rows[i].part_number = pn =>
                     /\ rows[i].quantity = 0 - item.quantity
                     /\ rows[i].transaction_type = "Issue"
                     /\ rows[i].work_order = cm_number(d)
               /\ CountPart(used, pn) = 1
               /\ \A i \in 1 .. Len(used) : used[i].part_number = pn =>
                     /\ used[i].quantity_used = item.quantity
                     /\ used[i].cm_number = cm_number(d)
               /\ mro_inventory'[pn].quantity_in_stock
                     = mro_inventory[pn].quantity_in_stock - item.quantity
      ]_vars

\* C10: every listed item asks for no more than the positive quantity the dialog
\* shows for its part; the "Part Out of Stock" box is shown for a shown quantity
\* <= 0 and the "Insufficient Stock" box for a request above a positive shown
\* quantity, and the step that shows either changes neither the tables nor the
\* pending lists.
C10_StockRejection ==
    [][/\ \A d \in Dialogs : \A item \in Items(d)' :
             /\ all_parts_data'[d][item.part_number] > 0
             /\ item.quantity <= all_parts_data'[d][item.part_number]
       /\ (message' # message /\ message'.box = "Part Out of Stock") =>
             /\ message'.qty_available <= 0
             /\ message'.qty_available = all_parts_data[message'.dialog][message'.part_number]
             /\ UNCHANGED <<db, consumed_parts, tx>>
       /\ (message' # message /\ message'.box = "Insufficient Stock") =>
             /\ message'.qty_available > 0
             /\ message'.qty_used > message'.qty_available
             /\ message'.qty_available = all_parts_data[message'.dialog][message'.part_number]
             /\ UNCHANGED <<db, consumed_parts, tx>>
      ]_vars

\* a part shown with quantity 0 was refused as out of stock, nothing was listed
C10_Witness ==
    /\ message.box = "Part Out of Stock"
    /\ message.qty_available = 0
    /\ consumed_parts[message.dialog] = <<>>
    /\ mro_stock_transactions # <<>>

\* the step in which a dialog's save executes the statements of its next item
Recording(d) == dlg[d] = "saving" /\ dlg'[d] = "saving" /\ tx'[d].k = tx[d].k + 1

\* C11: an item is recorded only for a part that, when its statements run, has an
\* inventory row with status Active; a save that meets a part without a row fails
\* and persists nothing.
C11_ActiveAtRecording ==
    [][\A d \in Dialogs :
         /\ Recording(d) =>
               LET pn == consumed_parts[d][tx[d].k].part_number
               IN pn \in DOMAIN mro_inventory /\ mro_inventory[pn].status = "Active"
         /\ (dlg[d] = "saving" /\ tx[d].k <= Len(consumed_parts[d])
             /\ consumed_parts[d][tx[d].k].part_number \notin DOMAIN mro_inventory
             /\ dlg'[d] # dlg[d])
               => Failing(d) /\ UNCHANGED db
      ]_vars

\* C12: the usage row written for an item carries total_cost = quantity_used times
\* the unit_price stored for the part when the item's statements run; the commit
\* appends exactly the rows written, and no step changes a committed usage row.
C12_CostSnapshot ==
    [][/\ \A d \in Dialogs : Recording(d) =>
             LET part == consumed_parts[d][tx[d].k]
                 row == tx'[d].used[Len(tx'[d].used)]
             IN /\ Len(tx'[d].used) = Len(tx[d].used) + 1
                /\ row.part_number = part.part_number
                /\ row.quantity_used = part.quantity
                /\ row.total_cost
                      = part.quantity * mro_inventory[part.part_number].unit_price
       /\ \A d \in Dialogs : Committing(d) =>
             Appended(cm_parts_used, cm_parts_used') = tx[d].used
       /\ Len(cm_parts_used') >= Len(cm_parts_used)
       /\ \A i \in 1 .. Len(cm_parts_used) : cm_parts_used'[i] = cm_parts_used[i]
      ]_vars

\* a committed usage row of quantity 2 keeps the cost computed at the old price
\* after the part's unit_price was edited
C12_Witness ==
    \E i \in 1 .. Len(cm_parts_used) :
        LET row == cm_parts_used[i]
        IN /\ row.part_number \in DOMAIN mro_inventory
           /\ row.quantity_used = 2
           /\ row.total_cost = 2
           /\ mro_inventory[row.part_number].unit_price = 2

\* C13: a save with an empty list can always be confirmed; the confirmed save ends
\* the dialog as accepted, calls the callback once with TRUE, changes no table and
\* opens no transaction; a dialog accepted with an empty list has no ledger or
\* usage row.
C13_EmptySave ==
    [][\A d \in Dialogs :
         /\ (dlg[d] = "open" /\ consumed_parts[d] = <<>>) =>
               ENABLED (/\ save_and_close(d)
                        /\ dlg'[d] = "accepted"
                        /\ callbacks'[d] = Append(callbacks[d], TRUE))
         /\ (dlg[d] = "open" /\ dlg'[d] = "accepted") =>
               /\ consumed_parts[d] = <<>>
               /\ callbacks'[d] = Append(callbacks[d], TRUE)
               /\ UNCHANGED <<db, tx, consumed_parts>>
         /\ (dlg'[d] = "accepted" /\ consumed_parts'[d] = <<>>) =>
               /\ RowsOf(d, mro_stock_transactions') = <<>>
               /\ UsedOf(d, cm_parts_used') = <<>>
      ]_vars

\* an empty save was confirmed while the other dialog's batch is on record
C13_Witness ==
    \E d \in Dialogs :
        /\ dlg[d] = "accepted"
        /\ consumed_parts[d] = <<>>
        /\ callbacks[d] = <<TRUE>>
        /\ message = Plain(d, "Confirm")
        /\ cm_parts_used # <<>>

\* C15: the step that ends a dialog by Cancel or by closing the window changes no
\* table, has no transaction open and calls the callback with FALSE; a dialog
\* that has not committed has no ledger or usage row, and one that has committed
\* has a row of each kind for every item.
C15_CancelWritesNothing ==
    [][\A d \in Dialogs :
         /\ (dlg[d] # "rejected" /\ dlg'[d] = "rejected") =>
               /\ dlg[d] = "open"
               /\ tx[d] = NoTx /\ tx'[d] = NoTx
               /\ UNCHANGED db
               /\ callbacks'[d] = Append(callbacks[d], FALSE)
         /\ dlg'[d] # "accepted" =>
               /\ RowsOf(d, mro_stock_transactions') = <<>>
               /\ UsedOf(d, cm_parts_used') = <<>>
         /\ dlg'[d] = "accepted" =>
               /\ Len(RowsOf(d, mro_stock_transactions')) = Len(consumed_parts'[d])
               /\ Len(UsedOf(d, cm_parts_used')) = Len(consumed_parts'[d])
      ]_vars

\* a dialog was left with two parts listed, after a save of them had failed
C15_Witness ==
    \E d \in Dialogs :
        /\ dlg[d] = "rejected"
        /\ Len(consumed_parts[d]) = 2
        /\ callbacks[d] = <<FALSE, FALSE>>
        /\ mro_stock_transactions # <<>>

\* C16: every ledger row and every usage row references a part that has an
\* inventory row; a step that removes a part removes one that no row references,
\* and leaves the ledger and usage tables as they are.
C16_ReferentialIntegrity ==
    [][/\ \A i \in 1 .. Len(mro_stock_transactions') :
             mro_stock_transactions'[i].part_number \in DOMAIN mro_inventory'
       /\ \A i \in 1 .. Len(cm_parts_used') :
             cm_parts_used'[i].part_number \in DOMAIN mro_inventory'
       /\ \A p \in DOMAIN mro_inventory \ DOMAIN mro_inventory' :
             /\ ~Referenced(p)
             /\ UNCHANGED <<mro_stock_transactions, cm_parts_used>>
      ]_vars

\* a part was deleted while the other part, consumed under a work order, is kept
C16_Witness ==
    /\ DOMAIN mro_inventory # Parts
    /\ DOMAIN mro_inventory # {}
    /\ cm_parts_used # <<>>
    /\ mro_stock_transactions # <<>>

\* C14: a write handler that meets a storage failure rolls its transaction back
\* and reports the failure: a failed consumption save leaves no transaction open,
\* changes no table, shows the error and calls the callback with FALSE; an import
\* in which an INSERT fails shows the error box, leaves nothing pending on the
\* connection and changes no table.
C14_RollbackBeforeReport ==
    [][/\ \A d \in Dialogs : Failing(d) =>
             /\ tx'[d] = NoTx
             /\ UNCHANGED db
             /\ message' = Plain(d, "Failed to record parts consumption")
             /\ callbacks'[d] = Append(callbacks[d], FALSE)
       /\ (Len(import_log') > Len(import_log)
           /\ import_log'[Len(import_log')].failure = "statement") =>
             /\ message'.box = "Import Error"
             /\ conn_tx' = NoRows
             /\ UNCHANGED db
      ]_vars

\* the same call with the same outcome (values are compared only when both calls
\* are of one operation and ended the same way)
SameCall(a, b) ==
    /\ a.op = b.op
    /\ a.days = b.days
    /\ a.today = b.today
    /\ a.raised = b.raised
    /\ a.value = b.value

\* C17: a step in which the history manager is called leaves the committed rows
\* of the inventory, ledger, usage, equipment and work-order tables as they were.
C17_ReadOnly ==
    [][(returned'.op # "none" /\ ~(SameCall(returned', returned) /\ SameCall(previous', previous))) =>
          UNCHANGED <<db, tables>>
      ]_vars

\* two calls with nothing written between them: the same operation, the same
\* arguments, and both returned
SameCallTwice ==
    /\ previous.op # "none"
    /\ returned.op = previous.op
    /\ returned.days = previous.days
    /\ ~previous.raised
    /\ ~returned.raised

Scored == returned.op = "get_equipment_health_score" /\ ~returned.raised
          /\ equipment # NoEquipment

\* C19: the returned health_score is the integer part of
\* 100 - (100 - pm_compliance) * 0.3 - min(20, (cm_frequency - 1) * 10) [cm_frequency > 1]
\* - 30 [status not Active], clamped to 0..100 (stated in tenths; cm_frequency is
\* held in tenths); pm_compliance 75, cm_frequency 0, Active give 92.
C19_HealthScore ==
    Scored =>
        LET m == returned.value
            raw == 1000 - (100 - m.pm_compliance) * 3
                   - (IF m.cm_frequency > 10 THEN Min(200, (m.cm_frequency - 10) * 10) ELSE 0)
                   - (IF m.status # "Active" THEN 300 ELSE 0)
            clamped == Max(0, Min(1000, raw))
        IN /\ m.health_score \in 0 .. 100
           /\ m.health_score * 10 <= clamped
           /\ clamped < (m.health_score + 1) * 10
           /\ (m.pm_compliance = 75 /\ m.cm_frequency = 0 /\ m.status = "Active")
                 => m.health_score = 92

\* monthly PM, 9 completions, no corrective record, Active: the score is 92
C19_Witness ==
    /\ Scored
    /\ ExpectedPMs(equipment) = 12
    /\ Len(pm_completions) = 9
    /\ corrective_maintenance = <<>>
    /\ returned.value.pm_compliance = 75
    /\ returned.value.cm_frequency = 0
    /\ returned.value.health_score = 92

\* the counts the compliance of the last call was computed from
Completed == Len(Since(pm_completions, "completion_date", returned.today - Window))
Expected ==
    (IF equipment.monthly_pm = "X" THEN 12 ELSE 0) + (IF equipment.annual_pm = "X" THEN 1 ELSE 0)

\* C20 as stated: pm_compliance = min(100, completed / expected * 100), and 0 when
\* expected is 0.
C20_Compliance ==
    Scored =>
        LET c == returned.value.pm_compliance
        IN /\ Expected = 0 => c = 0
           /\ Expected > 0 => c * Expected = Min(100 * Expected, Completed * 100)
           /\ c \in 0 .. 100

\* C20, amended: pm_compliance is the integer part of completed / expected * 100,
\* capped at 100; it is 0 when expected is 0; it is always within 0..100.
C20_ComplianceTruncated ==
    Scored =>
        LET c == returned.value.pm_compliance
        IN /\ Expected = 0 => c = 0
           /\ Expected > 0 =>
                 \/ c = 100 /\ Completed * 100 >= 100 * Expected
                 \/ c < 100 /\ c * Expected <= Completed * 100
                            /\ Completed * 100 < (c + 1) * Expected
           /\ c \in 0 .. 100

\* 1 completion of 12 expected gives 8, and more completions than expected give 100
C20_Witness ==
    /\ Scored
    /\ Expected = 12
    /\ Completed = 1
    /\ returned.value.pm_compliance = 8
\* the triggers of the last health score, in the order compliance, frequency,
\* parts, status, and the message of each
Triggers(m) ==
    <<m.pm_compliance < 80, m.cm_frequency > 20, m.parts_count > 20, m.status # "Active">>
TriggerMessages(m) ==
    <<"Improve PM compliance - currently below 80%",
      "High CM frequency - investigate root causes",
      "High parts usage - review equipment reliability",
      "Equipment status is '" \o m.status \o "' - review and update">>

\* C21: the returned recommendations hold exactly one message per firing trigger,
\* none for a trigger that does not fire, in the order compliance, frequency,
\* parts, status; with no trigger the list is empty and the "no issues" line is
\* in the displayed text only.
C21_Recommendations ==
    Scored =>
        LET m == returned.value
            r == m.recommendations
            firing == {i \in 1 .. 4 : Triggers(m)[i]}
        IN /\ Len(r) = Cardinality(firing)
           /\ \A k \in 1 .. Len(r) :
                 \E i \in firing : /\ r[k] = TriggerMessages(m)[i]
                                   /\ Cardinality({j \in firing : j < i}) = k - 1
           /\ \A k \in 1 .. Len(r) : r[k] # "No issues detected. Equipment is performing well."
           /\ firing = {} =>
                 /\ r = <<>>
                 /\ DisplayedRecommendations(m) =
                        <<"No issues detected. Equipment is performing well.">>

\* all four triggers fired: low compliance, more than 2 CMs a month, 21 parts
\* requests, an equipment that is not Active
C21_Witness ==
    /\ Scored
    /\ Len(returned.value.recommendations) = 4
    /\ returned.value.parts_count = 21
    /\ returned.value.status = "Inactive"

\* no trigger fired with 20 parts requests in the window
C21_WitnessNone ==
    /\ Scored
    /\ returned.value.recommendations = <<>>
    /\ returned.value.parts_count = 20
\* what a timeline call returned
Listed == returned.op = "get_timeline_events" /\ ~returned.raised

\* the events of the last timeline call in the order they were appended, before
\* the sort
Encounter ==
    LET history == CompleteHistory(returned.today - returned.days)
    IN PMEvents(history.pm_completions) \o CMEvents(history.corrective_maintenance)
       \o PartEvents(history.parts_used) \o StatusEvents(history.status_changes)

On(events, date) == SelectSeq(events, LAMBDA e : e.date = date)

\* C22: the timeline is ordered by date, newest first, and the events of one date
\* are in the order they were appended: preventive completions, corrective open
\* and close events, parts events, status changes.
C22_NewestFirstStable ==
    Listed =>
        LET events == returned.value
        IN /\ \A i, j \in 1 .. Len(events) : i < j => events[i].date >= events[j].date
           /\ \A date \in {events[i].date : i \in 1 .. Len(events)} :
                 On(events, date) = On(Encounter, date)
           /\ Len(events) = Len(Encounter)
           /\ \A i, j \in 1 .. Len(events) :
                 (i < j /\ events[i].date = events[j].date) =>
                     ~(events[i].type = "STATUS" /\ events[j].type # "STATUS")
                     /\ ~(events[j].type = "PM" /\ events[i].type # "PM")

\* four events of the newest date in the order open, close, part, status, and an
\* older preventive completion after them
C22_Witness ==
    /\ Listed
    /\ Len(returned.value) = 5
    /\ returned.value[1].type = "CM_OPEN"
    /\ returned.value[2].type = "CM_CLOSE"
    /\ returned.value[3].type = "PART"
    /\ returned.value[4].type = "STATUS"
    /\ returned.value[5].type = "PM"
    /\ returned.value[5].date < returned.value[4].date

\* the rows of a table that are in the window of the last call
InWindow(rows, field) == Since(rows, field, returned.today - returned.days)
Count(seq, Test(_)) == Cardinality({i \in 1 .. Len(seq) : Test(seq[i])})

\* C28: every corrective record in the window has one "opened" event at its
\* reported date, and one "closed" event at its close date exactly when it has a
\* close date; the number of events is preventive completions + corrective
\* records + corrective records with a close date + parts events + status changes.
C28_OpenCloseEvents ==
    Listed =>
        LET events == returned.value
            cms == InWindow(corrective_maintenance, "reported_date")
        IN /\ \A k \in 1 .. Len(cms) :
                 LET cm == cms[k]
                     same == Count(cms, LAMBDA r : r = cm)
                 IN /\ Count(events, LAMBDA e : e.type = "CM_OPEN" /\ e.row = cm
                                                /\ e.date = cm.reported_date) = same
                    /\ Count(events, LAMBDA e : e.type = "CM_CLOSE" /\ e.row = cm
                                                /\ e.date = cm.closed_date)
                          = (IF cm.closed_date # NoDate THEN same ELSE 0)
           /\ Count(events, LAMBDA e : e.type = "CM_OPEN") = Len(cms)
           /\ Count(events, LAMBDA e : e.type = "CM_CLOSE")
                 = Count(cms, LAMBDA r : r.closed_date # NoDate)
           /\ Len(events) = Len(InWindow(pm_completions, "completion_date"))
                            + Len(cms) + Count(cms, LAMBDA r : r.closed_date # NoDate)
                            + Len(InWindow(cm_parts_requests, "requested_date"))
                            + Len(InWindow(audit_log, "timestamp"))

\* a corrective record that is still open: one event for it, three in all
C28_Witness ==
    /\ Listed
    /\ Len(corrective_maintenance) = 1
    /\ corrective_maintenance[1].closed_date = NoDate
    /\ Len(returned.value) = 3
    /\ \E i \in 1 .. 3 : returned.value[i].type = "CM_OPEN"

\* a corrective record with a close date: an open and a close event
C28_WitnessClosed ==
    /\ Listed
    /\ Len(returned.value) = 5
    /\ returned.value[2].type = "CM_CLOSE"
    /\ returned.value[5].type = "CM_OPEN"
\* what a trends call returned
Trended == returned.op = "get_maintenance_trends" /\ ~returned.raised

\* the calendar month after a calendar month
Following(label) ==
    IF label.month = 12 THEN [year |-> label.year + 1, month |-> 1]
    ELSE [year |-> label.year, month |-> label.month + 1]

\* C23: trends returns `months` labels that are consecutive calendar months,
\* oldest first, the last one the current month.
C23_ConsecutiveMonths ==
    Trended =>
        LET labels == returned.value.months
        IN /\ Len(labels) = returned.days
           /\ labels[Len(labels)] = [year |-> Date(returned.today).year,
                                      month |-> Date(returned.today).month]
           /\ \A k \in 1 .. Len(labels) - 1 : labels[k + 1] = Following(labels[k])

\* the rows of a table dated in a calendar month
DatedIn(rows, field, label) ==
    SelectSeq(rows, LAMBDA r : Date(r[field]).year = label.year
                               /\ Date(r[field]).month = label.month)

\* C27: the bucket of a month counts the preventive completions, corrective
\* records and labor hours dated from the first day of that month up to, and not
\* including, the first day of the next calendar month (January of the next year
\* after December), and nothing else.
C27_BucketRange ==
    Trended =>
        LET t == returned.value
        IN \A k \in 1 .. Len(t.months) :
              LET pms == DatedIn(pm_completions, "completion_date", t.months[k])
                  cms == DatedIn(corrective_maintenance, "reported_date", t.months[k])
              IN /\ t.monthly_pm_counts[k] = Len(pms)
                 /\ t.monthly_cm_counts[k] = Len(cms)
                 /\ t.monthly_labor_hours[k] = SumHours(pms) + SumHours(cms)

\* in January: the December bucket counts the completion of the 31st of December
\* and not the corrective record of the first of January
C27_Witness ==
    /\ Trended
    /\ Len(returned.value.months) = 2
    /\ returned.value.months[1] = [year |-> 2026, month |-> 12]
    /\ returned.value.months[2] = [year |-> 2027, month |-> 1]
    /\ returned.value.monthly_pm_counts = <<1, 0>>
    /\ returned.value.monthly_cm_counts = <<0, 1>>
    /\ returned.value.monthly_labor_hours = <<2, 1>>
\* the operations of the history manager that the claim C24 names
HistoryOps == {"get_equipment_health_score", "get_timeline_events", "get_maintenance_trends"}

\* C24: a health score, timeline or trends call in which a query failed raised
\* to its caller and returned nothing: no metrics, events or buckets, filled in
\* part or with zeros.
C24_NoPartialResult ==
    (returned.op \in HistoryOps /\ returned.raised) => returned.value = <<>>

\* a query of a trends call failed, with a completion in the table
C24_Witness ==
    /\ returned.op = "get_maintenance_trends"
    /\ returned.raised
    /\ pm_completions # <<>>
    /\ previous.op = "get_equipment_health_score"
    /\ ~previous.raised
\* C25: a quantity that is not a number or is not above 0 is never in a pending
\* list; every ledger row of a consumption save has a quantity below 0 and every
\* usage row a quantity_used above 0.
C25_ValidQuantities ==
    /\ \A d \in Dialogs : \A i \in 1 .. Len(consumed_parts[d]) :
          IsNumber(consumed_parts[d][i].quantity) /\ consumed_parts[d][i].quantity > 0
    /\ \A i \in 1 .. Len(mro_stock_transactions) :
          IsNumber(mro_stock_transactions[i].quantity) /\ mro_stock_transactions[i].quantity < 0
    /\ \A i \in 1 .. Len(cm_parts_used) :
          IsNumber(cm_parts_used[i].quantity_used) /\ cm_parts_used[i].quantity_used > 0
\* the orders in which the items of a batch can be listed
Orders(items) ==
    LET n == Len(items)
        shuffles == {f \in [1 .. n -> 1 .. n] : \A a, b \in 1 .. n : a # b => f[a] # f[b]}
    IN {[i \in 1 .. n |-> items[f[i]]] : f \in shuffles}

\* what a save of the items, taken one after the other in the order given, leaves
\* behind: the stock of every part, the ledger rows and the usage rows it adds
\* (part, quantity and cost), or a failure at an item whose part has no row
RECURSIVE Run(_, _, _)
Run(inv, items, out) ==
    IF items = <<>> THEN out
    ELSE LET part == Head(items)
             pn == part.part_number
         IN IF pn \notin DOMAIN inv THEN [out EXCEPT !.failed = TRUE]
            ELSE Run(inv, Tail(items),
                     [failed |-> FALSE,
                      stock |-> [out.stock EXCEPT ![pn] = @ - part.quantity],
                      ledger |-> out.ledger \cup {<<pn, 0 - part.quantity>>},
                      used |-> out.used \cup {<<pn, part.quantity,
                                                inv[pn].unit_price * part.quantity>>}])
Outcome(inv, items) ==
    Run(inv, items, [failed |-> FALSE,
                     stock |-> [p \in DOMAIN inv |-> inv[p].quantity_in_stock],
                     ledger |-> {}, used |-> {}])

\* the rows a step has added to a table
Added(before, after) == {after[i] : i \in Len(before) + 1 .. Len(after)}

\* C26: a save that runs alone ends in the same state for every order of the
\* batch's items: the same stock of every part and the same ledger and usage
\* rows; a batch that fails in one order fails in every order, and a failed save
\* changes nothing.
C26_OrderIndependent ==
    [][(dlg[1] = "saving" /\ dlg'[1] # "saving") =>
          \A items \in Orders(consumed_parts[1]) :
              LET out == Outcome(mro_inventory, items)
              IN /\ out.failed = Outcome(mro_inventory, consumed_parts[1]).failed
                 /\ IF dlg'[1] = "accepted"
                    THEN /\ ~out.failed
                         /\ \A p \in DOMAIN mro_inventory :
                               mro_inventory'[p].quantity_in_stock = out.stock[p]
                         /\ {<<r.part_number, r.quantity>> :
                                r \in Added(mro_stock_transactions, mro_stock_transactions')}
                               = out.ledger
                         /\ {<<r.part_number, r.quantity_used, r.total_cost>> :
                                r \in Added(cm_parts_used, cm_parts_used')}
                               = out.used
                         /\ Len(mro_stock_transactions') = Len(mro_stock_transactions) + Len(items)
                         /\ Len(cm_parts_used') = Len(cm_parts_used) + Len(items)
                    ELSE UNCHANGED db
      ]_vars

\* a batch of two items, BRG-200 listed first, was committed
C26_Witness ==
    /\ dlg[1] = "accepted"
    /\ Len(consumed_parts[1]) = 2
    /\ consumed_parts[1][1].part_number = "BRG-200"
    /\ Len(mro_stock_transactions) = 2
    /\ Len(cm_parts_used) = 2

\* a save of two items failed at the second, whose part had been deleted
C26_WitnessFailed ==
    /\ dlg[1] = "open"
    /\ callbacks[1] = <<FALSE>>
    /\ Len(consumed_parts[1]) = 2
    /\ consumed_parts[1][2].part_number \notin DOMAIN mro_inventory
    /\ mro_stock_transactions = <<>>

\* C30: over the life of a dialog the callback is called exactly once, when the
\* dialog ends: with True after a commit or a confirmed empty save, with False
\* otherwise; while the dialog is open it has not been called.
C30_CallbackOnce ==
    \A d \in Dialogs :
        /\ dlg[d] = "accepted" => callbacks[d] = <<TRUE>>
        /\ dlg[d] = "rejected" => callbacks[d] = <<FALSE>>
        /\ dlg[d] \notin {"accepted", "rejected"} => callbacks[d] = <<>>

\* C29: a health score asked for an equipment that has no row raises to the
\* caller (not found) and returns no metrics.
C29_NotFound ==
    (returned.op = "get_equipment_health_score" /\ equipment = NoEquipment) => returned.raised
====
